---- MODULE Spec2Model ----
(***************************************************************************)
(* Plugin discovery and classification of wsutil/plugins.c.                *)
(*                                                                         *)
(* The program state is the two process-wide lists (plugin_list,           *)
(* plugin_types), the static counter type_val of add_plugin_type and the   *)
(* set of GModule handles that are open.  The file system, the layout      *)
(* (build directory or installed), the privilege state and the behaviour   *)
(* of the dynamic loader are the environment: they are chosen in Init and  *)
(* never change.  Each public function is one action.                      *)
(*                                                                         *)
(* A guint32 bitmask is modelled as the set of its set bit positions, a    *)
(* subset of 0..31 (0 is the empty set, | is union, 1 << n is {n}).        *)
(***************************************************************************)
EXTENDS Integers, Sequences, FiniteSets, TLC

VARIABLES
    fs,                 \* environment: the file system, layout and privileges
    plugin_list,        \* static plugin *plugin_list, as the sequence of records
    plugin_types,       \* static GSList *plugin_types, as the sequence of records
    type_val,           \* static guint type_val of add_plugin_type
    open_handles,       \* the GModule handles opened and not yet closed
    plugin_list_freed,  \* plugin_list points to records plugins_cleanup freed
    plugin_types_freed, \* plugin_types points to cells plugins_cleanup freed
    crashed,            \* an operation used freed memory: behaviour undefined
    reports,            \* report_failure/report_warning calls of the last operation
    scanned,            \* dirnames handed to plugins_scan_dir by the last scan_plugins
    last_op,            \* the operation that produced this state
    last_mode,          \* mode argument of the last scan_plugins call
    called,             \* scan_plugins was called before
    discoveries,        \* number of scan_plugins calls that entered plugins_scan_dir
    types_at_scan,      \* plugin_types as it was in the last call that scanned
    unowned_seen,       \* the last scan moved to a next entry with an unowned open handle
    open_calls,         \* the file names the last scan handed to g_module_open
    rewritten,          \* the last scan changed plugin_list other than by one append
    descriptions        \* the callback calls of the last plugins_get_descriptions

vars == <<fs, plugin_list, plugin_types, type_val, open_handles,
          plugin_list_freed, plugin_types_freed, crashed, reports, scanned,
          last_op, last_mode, called, discoveries, types_at_scan,
          unowned_seen, open_calls, rewritten, descriptions>>

----------------------------------------------------------------------------
(* Bounds of the model *)

\* module files placed in the file system
MaxFiles == 2
\* plugin types registered in Spec
MaxScanTypes == 1
\* scan_plugins calls that scan directories, in one run
MaxDiscoveries == 2
\* registrations whose owner is free in SpecTypes; the later ones repeat
\* the owner of the one before
MaxVaried == 2

(* Program constants *)

\* the width of the types bitmask: "if (type_val >= 32)"
MaxPluginTypes == 32

REPORT_LOAD_FAILURE == "REPORT_LOAD_FAILURE"
DONT_REPORT_LOAD_FAILURE == "DONT_REPORT_LOAD_FAILURE"
Modes == {REPORT_LOAD_FAILURE, DONT_REPORT_LOAD_FAILURE}

G_MODULE_SUFFIX == "so"
\* a NULL path (get_plugins_dir() found no directory)
NULL == <<>>

----------------------------------------------------------------------------
(* The environment: directories, files and the modules in them.            *)
(* A path is the sequence of its components.                               *)

PLUGIN_DIR == <<"plugins">>
PLUGIN_DIR_WITH_VERSION == <<"plugins-ver">>
PERS_DIR_WITH_VERSION == <<"pers-ver">>
SUB_DIR == <<"plugins", "sub">>
LIBS_DIR == <<"plugins", "sub", ".libs">>

FileDirs == {PLUGIN_DIR, SUB_DIR, LIBS_DIR, PLUGIN_DIR_WITH_VERSION,
             PERS_DIR_WITH_VERSION}

\* What a file is to the loader and to the type callbacks.
Kinds == {"unloadable", "noversion", "dissector", "wtap"}

\* The files a file system may hold.  "foo.so" may lie in every directory
\* (of any kind in the three top directories, a dissector module in the
\* two below the plugin directory), "bar.so" is a dissector module beside
\* it in the global directories, and "notes.txt" would load and classify as
\* a dissector module but has no module suffix.
TopDirs == {PLUGIN_DIR, PLUGIN_DIR_WITH_VERSION, PERS_DIR_WITH_VERSION}
FileChoices ==
    [dir : TopDirs, name : {"foo.so"}, kind : Kinds]
    \cup [dir : {SUB_DIR, LIBS_DIR}, name : {"foo.so"}, kind : {"dissector"}]
    \cup [dir : {PLUGIN_DIR, PLUGIN_DIR_WITH_VERSION}, name : {"bar.so"},
          kind : {"dissector"}]
    \cup [dir : {PLUGIN_DIR_WITH_VERSION}, name : {"notes.txt"},
          kind : {"dissector"}]

\* The order in which ws_dir_read_name returns the entries of a directory.
DirOrder == <<"foo.so", "bar.so", "notes.txt", "sub", ".libs">>

IsPrefix(d, p) == Len(d) <= Len(p) /\ SubSeq(p, 1, Len(d)) = d

\* A directory exists when a file lies in it or below it.
IsDirectory(f, path) == \E x \in f.files : IsPrefix(path, x.dir)

IsFile(f, path) ==
    \E x \in f.files : path = Append(x.dir, x.name)

KindOf(f, filename) ==
    (CHOOSE x \in f.files : filename = Append(x.dir, x.name)).kind

\* ws_dir_open / ws_dir_read_name / ws_dir_get_name: the entry names of a
\* directory, in reading order ("." and ".." are not returned by GLib).
DirEntries(f, dirname) ==
    SelectSeq(DirOrder, LAMBDA n :
        IsFile(f, Append(dirname, n)) \/ IsDirectory(f, Append(dirname, n)))

RECURSIVE FileSets(_)
FileSets(n) ==
    IF n = 0 THEN {{}}
    ELSE LET smaller == FileSets(n - 1)
         IN smaller \cup
            {s \cup {x} : s \in smaller, x \in FileChoices}

\* No two files of one directory have the same name.
WellFormed(files) ==
    \A x, y \in files : (x.dir = y.dir /\ x.name = y.name) => x = y

\* The directories the layout of f gives to plugins.  What a file outside
\* them is to the loader shows only if it is opened all the same, so such a
\* file is taken to be a dissector module: the kind that would be
\* registered.
LayoutDirs(f) ==
    (IF f.plugin_dir = NULL THEN {}
     ELSE IF f.build THEN {PLUGIN_DIR, SUB_DIR, LIBS_DIR}
     ELSE {PLUGIN_DIR_WITH_VERSION})
    \cup (IF f.privs THEN {} ELSE {PERS_DIR_WITH_VERSION})

FileSystems ==
    {f \in [plugin_dir : {PLUGIN_DIR, NULL}, build : BOOLEAN, privs : BOOLEAN,
            files : {s \in FileSets(MaxFiles) : WellFormed(s)}] :
        /\ (f.plugin_dir = NULL) => ~f.build
        /\ \A x \in f.files :
              x.dir \notin LayoutDirs(f) => x.kind = "dissector"}

\* The external collaborators of wsutil/filesystem.h and wsutil/privileges.h.
get_plugins_dir(f) == f.plugin_dir
running_in_build_directory(f) == f.build
started_with_special_privs(f) == f.privs
get_plugins_dir_with_version(f) == PLUGIN_DIR_WITH_VERSION
get_plugins_pers_dir_with_version(f) == PERS_DIR_WITH_VERSION

\* test_for_directory(path) == EISDIR
test_for_directory(f, path) == IsDirectory(f, path)

\* g_file_test(dirname, G_FILE_TEST_EXISTS) and g_file_test(dirname, G_FILE_TEST_IS_DIR)
g_file_test_exists(f, path) == IsDirectory(f, path) \/ IsFile(f, path)
g_file_test_is_dir(f, path) == IsDirectory(f, path)

----------------------------------------------------------------------------
(* The dynamic loader and the type callbacks.                              *)

\* g_module_open(filename, G_MODULE_BIND_LOCAL) returns a handle (non-NULL).
\* The handle of a module is identified with the file name it was opened from.
ModuleLoads(f, filename) == KindOf(f, filename) # "unloadable"

\* g_module_symbol(handle, "version", &gp) finds the symbol.
HasVersionSymbol(f, handle) == KindOf(f, handle) \in {"dissector", "wtap"}

\* The string the version symbol points to.
VersionOf(f, handle) ==
    IF KindOf(f, handle) = "dissector" THEN "1.0" ELSE "2.0"

g_module_open(handles, filename) == handles \cup {filename}
g_module_close(handles, handle) == handles \ {handle}

\* The type owners that call add_plugin_type: (type, callback) pairs.
TypeOwners ==
    { [type |-> "dissector", callback |-> "check_for_dissector_plugin"],
      [type |-> "file type", callback |-> "check_for_wtap_plugin"] }

\* (*type->callback)(new_plug->handle)
CallbackResult(f, callback, handle) ==
    \/ callback = "check_for_dissector_plugin" /\ KindOf(f, handle) = "dissector"
    \/ callback = "check_for_wtap_plugin" /\ KindOf(f, handle) = "wtap"

----------------------------------------------------------------------------
(* Helpers of the scan.                                                    *)

\* strrchr(name, '.') followed by dot+1: the text after the last dot of a
\* name, or NoDot when the name holds no dot.
NoDot == "<no dot>"
AfterLastDot(name) ==
    CASE name = "foo.so"    -> "so"
      [] name = "bar.so"    -> "so"
      [] name = "notes.txt" -> "txt"
      [] name = ".libs"     -> "libs"
      [] OTHER              -> NoDot

\* dot == NULL || strcmp(dot+1, G_MODULE_SUFFIX) != 0
NotAModuleName(name) ==
    AfterLastDot(name) = NoDot \/ AfterLastDot(name) # G_MODULE_SUFFIX

\* g_snprintf(filename, FILENAME_LEN, "%s" G_DIR_SEPARATOR_S "%s", dirname, name)
FileName(dirname, name) == Append(dirname, name)

\* 1 << type->type_val, as the set of the bits of the result
Shl1(n) == {n} \cap (0 .. 31)

\* Variant: the name check finds nothing.
check_if_plugin_exists_never(list, name) == FALSE

check_if_plugin_exists(list, name) ==
    \E i \in 1 .. Len(list) : list[i].name = name

\* Variant: the new record is linked at the head of the list.
add_plugin_at_head(list, new_plug) == <<new_plug>> \o list

add_plugin(list, new_plug) == Append(list, new_plug)

\* Variant: the bit set is the one after the type's.
call_plugin_callback_next_bit(f, type, handle, types) ==
    IF CallbackResult(f, type.callback, handle)
    THEN types \cup Shl1(type.type_val + 1)
    ELSE types

\* call_plugin_callback for one type: the new value of new_plug->types
call_plugin_callback(f, type, handle, types) ==
    IF CallbackResult(f, type.callback, handle)
    THEN types \cup Shl1(type.type_val)
    ELSE types

\* g_slist_foreach(plugin_types, call_plugin_callback, new_plug), starting
\* from new_plug->types = 0
RECURSIVE ClassifyFrom(_, _, _, _, _)
ClassifyFrom(f, typelist, i, handle, types) ==
    IF i > Len(typelist) THEN types
    ELSE ClassifyFrom(f, typelist, i + 1, handle,
                      call_plugin_callback(f, typelist[i], handle, types))

Classify(f, typelist, handle) == ClassifyFrom(f, typelist, 1, handle, {})

Report(fn, msg, arg) == [fn |-> fn, msg |-> msg, arg |-> arg]

\* Variant: load failures are reported in every mode.
ReportsLoadFailure_always(mode) == TRUE

\* The test that guards a report of a load failure.
ReportsLoadFailure(mode) == mode = REPORT_LOAD_FAILURE

\* Variant: no module is discarded for its mask.
has_no_registration_routines_never(types, mode) == FALSE

\* Variant: a module without registration routines is discarded only when
\* the discard is reported.
has_no_registration_routines_verbose(types, mode) ==
    types = {} /\ mode = REPORT_LOAD_FAILURE

\* "if (new_plug->types == 0)": the module is discarded.  The mode decides
\* only whether the discard is reported.
has_no_registration_routines(types, mode) == types = {}

\* The handles owned by the entries of a plugin list.
OwnedHandles(list) == {list[i].handle : i \in 1 .. Len(list)}

----------------------------------------------------------------------------
(* plugins_scan_dir.  The state of a scan is the record                    *)
(*   [plugin_list, open_handles, reports, scanned, unowned_seen, open_calls,*)
(*    rewritten, stale_read]                                               *)
(* where stale_read records that the freed plugin_types list was walked.   *)

\* Variant: the module is closed when its record is linked to the list.
register_plugin_closed(st, handles, new_plug) ==
    [st EXCEPT !.open_handles = g_module_close(handles, new_plug.handle),
               !.plugin_list = add_plugin(@, new_plug)]

\* "add_plugin(new_plug)": the module stays open and its record is linked
\* to the list.
register_plugin(st, handles, new_plug) ==
    [st EXCEPT !.open_handles = handles,
               !.plugin_list = add_plugin(@, new_plug)]

\* The body of the while loop for one directory entry.
plugins_scan_entry(f, typelist, types_freed, st, dirname, name, mode) ==
    LET filename == FileName(dirname, name)
    IN
    IF NotAModuleName(name) THEN st
    ELSE IF check_if_plugin_exists(st.plugin_list, name)
    THEN IF ReportsLoadFailure(mode)
         THEN [st EXCEPT !.reports = Append(@,
                  Report("report_warning", "found in multiple directories", name))]
         ELSE st
    ELSE IF ~ModuleLoads(f, filename)
    THEN IF ReportsLoadFailure(mode)
         THEN [st EXCEPT !.reports = Append(@,
                      Report("report_failure", "couldn't load module", filename)),
                  !.open_calls = @ \cup {filename}]
         ELSE [st EXCEPT !.open_calls = @ \cup {filename}]
    ELSE LET handle == filename
             opened == g_module_open(st.open_handles, filename)
         IN
         IF ~HasVersionSymbol(f, handle)
         THEN [st EXCEPT
                 !.reports = Append(@,
                     Report("report_failure", "no version symbol", name)),
                 !.open_calls = @ \cup {filename},
                 !.open_handles = g_module_close(opened, handle)]
         ELSE LET types == Classify(f, typelist, handle)
                  new_plug == [handle |-> handle, name |-> name,
                               version |-> VersionOf(f, handle),
                               types |-> types]
                  walked == [st EXCEPT !.stale_read = @ \/ types_freed,
                                       !.open_calls = @ \cup {filename}]
              IN
              IF has_no_registration_routines(types, mode)
              THEN [walked EXCEPT
                      !.reports =
                          IF ReportsLoadFailure(mode)
                          THEN Append(@, Report("report_failure",
                                         "no registration routines", name))
                          ELSE @,
                      !.open_handles = g_module_close(opened, handle)]
              ELSE register_plugin(walked, opened, new_plug)

\* Variant: the loop is left at the first module file that is not
\* registered.
continue_loop_break(entries, i, excluded) ==
    IF excluded THEN Len(entries) + 1 ELSE i + 1

\* "continue" and the end of the loop body: the loop goes on with the next
\* entry, whether the file of this one was excluded or registered.
continue_loop(entries, i, excluded) == i + 1

\* The while loop over the entries of the directory, from entry i on.  When
\* the loop leaves an entry, unowned_seen records whether a handle is open
\* that no entry of the plugin list owns, and rewritten whether the entry
\* changed the plugin list other than by adding one record at its end.
RECURSIVE ScanEntries(_, _, _, _, _, _, _, _)
ScanEntries(f, typelist, types_freed, st, dirname, entries, i, mode) ==
    IF i > Len(entries) THEN st
    ELSE LET after == plugins_scan_entry(f, typelist, types_freed, st,
                                         dirname, entries[i], mode)
             noted == [after EXCEPT
                          !.unowned_seen =
                              @ \/ (after.open_handles
                                       # OwnedHandles(after.plugin_list)),
                          !.rewritten =
                              @ \/ ~ \/ after.plugin_list = st.plugin_list
                                     \/ /\ Len(after.plugin_list)
                                             = Len(st.plugin_list) + 1
                                        /\ SubSeq(after.plugin_list, 1,
                                                  Len(st.plugin_list))
                                             = st.plugin_list]
             excluded == /\ ~NotAModuleName(entries[i])
                         /\ after.plugin_list = st.plugin_list
         IN ScanEntries(f, typelist, types_freed, noted, dirname, entries,
                        continue_loop(entries, i, excluded), mode)

plugins_scan_dir(f, typelist, types_freed, st, dirname, mode) ==
    LET entered == [st EXCEPT !.scanned = Append(@, dirname)]
    IN
    IF ~g_file_test_exists(f, dirname) \/ ~g_file_test_is_dir(f, dirname)
    THEN entered
    ELSE ScanEntries(f, typelist, types_freed, entered, dirname,
                     DirEntries(f, dirname), 1, mode)

----------------------------------------------------------------------------
(* scan_plugins *)

\* ws_dir_open(plugin_dir, 0, NULL) != NULL
ws_dir_open(f, dirname) == IsDirectory(f, dirname)

\* Variant: the entry itself is scanned, whatever it holds.
BuildEntryPath_no_libs(f, plugin_dir, name) == plugin_dir \o <<name>>

\* The directory scanned for one entry of the plugin directory in a build
\* layout: its ".libs" subdirectory when that is a directory, else the entry.
BuildEntryPath(f, plugin_dir, name) ==
    IF test_for_directory(f, plugin_dir \o <<name, ".libs">>)
    THEN plugin_dir \o <<name, ".libs">>
    ELSE plugin_dir \o <<name>>

\* Variant: the users plugin directory is scanned whatever the privileges.
personal_dirs_ungated(f) == <<get_plugins_pers_dir_with_version(f)>>

\* "if (!started_with_special_privs())": the users plugin directory
personal_dirs(f) ==
    IF ~started_with_special_privs(f)
    THEN <<get_plugins_pers_dir_with_version(f)>>
    ELSE <<>>

\* Variant: the scan goes on without a plugin directory.
plugin_dir_missing_never(plugin_dir) == FALSE

\* "if (plugin_dir == NULL)": we couldn't find the plugin directory
plugin_dir_missing(plugin_dir) == plugin_dir = NULL

\* The dirnames scan_plugins hands to plugins_scan_dir, in call order, when
\* plugin_list is NULL.
scan_dirs(f) ==
    LET plugin_dir == get_plugins_dir(f)
        entries == SelectSeq(DirEntries(f, plugin_dir),
                             LAMBDA n : n # "." /\ n # "..")
        global ==
            IF running_in_build_directory(f)
            THEN IF ws_dir_open(f, plugin_dir)
                 THEN <<plugin_dir>> \o
                      [i \in 1 .. Len(entries) |->
                          BuildEntryPath(f, plugin_dir, entries[i])]
                 ELSE <<>>
            ELSE <<get_plugins_dir_with_version(f)>>
    IN IF plugin_dir_missing(plugin_dir) THEN <<>>
       ELSE global \o personal_dirs(f)

RECURSIVE ScanDirsFrom(_, _, _, _, _, _, _)
ScanDirsFrom(f, typelist, types_freed, st, dirs, i, mode) ==
    IF i > Len(dirs) THEN st
    ELSE ScanDirsFrom(f, typelist, types_freed,
                      plugins_scan_dir(f, typelist, types_freed, st, dirs[i], mode),
                      dirs, i + 1, mode)

\* "if (plugin_list == NULL)": only scan for plugins once
MustScan(list) == list = <<>>

\* The whole of scan_plugins, from the state at the call to the state at
\* the return.
scan_plugins(f, typelist, types_freed, list, handles, mode) ==
    LET st0 == [plugin_list |-> list, open_handles |-> handles,
                reports |-> <<>>, scanned |-> <<>>, unowned_seen |-> FALSE,
                open_calls |-> {}, rewritten |-> FALSE, stale_read |-> FALSE]
    IN IF MustScan(list)
       THEN ScanDirsFrom(f, typelist, types_freed, st0, scan_dirs(f), 1, mode)
       ELSE st0

----------------------------------------------------------------------------
(* add_plugin_type *)

\* Variant: the limit is tested with > instead of >=.
TypesExhausted_off_by_one(tv) == tv > MaxPluginTypes

\* "if (type_val >= 32)"
TypesExhausted(tv) == tv >= MaxPluginTypes

\* Variant: the counter is not advanced after a registration.
add_plugin_type_no_increment(typelist, tv, type, callback) ==
    IF TypesExhausted(tv)
    THEN [plugin_types |-> typelist, type_val |-> tv,
          reports |-> <<Report("report_failure",
                               "at most 32 plugin types", type)>>]
    ELSE [plugin_types |->
              Append(typelist, [type |-> type, callback |-> callback,
                                type_val |-> tv]),
          type_val |-> tv,
          reports |-> <<>>]

\* The whole of add_plugin_type: the new list, the new counter and the
\* reports.
add_plugin_type(typelist, tv, type, callback) ==
    IF TypesExhausted(tv)
    THEN [plugin_types |-> typelist, type_val |-> tv,
          reports |-> <<Report("report_failure",
                               "at most 32 plugin types", type)>>]
    ELSE [plugin_types |->
              Append(typelist, [type |-> type, callback |-> callback,
                                type_val |-> tv]),
          type_val |-> tv + 1,
          reports |-> <<>>]

----------------------------------------------------------------------------
(* plugins_get_descriptions                                                *)
(* A GString is modelled by the sequence of the non-empty strings appended *)
(* to it: its text is their concatenation.                                 *)

g_string_new == <<>>

g_string_append(str, text) == IF text = "" THEN str ELSE Append(str, text)

\* g_module_name(handle): the file name the module was opened from
g_module_name(handle) == handle

\* Variant: the separator is left empty after the first type.
add_plugin_type_description_no_sep(type, info) ==
    IF info.pt_plug.types \cap Shl1(type.type_val) # {}
    THEN [info EXCEPT
            !.types = g_string_append(g_string_append(@, info.sep), type.type)]
    ELSE info

\* info is the type_callback_info [pt_plug, types, sep].
add_plugin_type_description(type, info) ==
    IF info.pt_plug.types \cap Shl1(type.type_val) # {}
    THEN [info EXCEPT
            !.types = g_string_append(g_string_append(@, info.sep), type.type),
            !.sep = ", "]
    ELSE info

\* g_slist_foreach(plugin_types, add_plugin_type_description, &info)
RECURSIVE DescribeFrom(_, _, _)
DescribeFrom(typelist, i, info) ==
    IF i > Len(typelist) THEN info
    ELSE DescribeFrom(typelist, i + 1,
                      add_plugin_type_description(typelist[i], info))

\* One turn of the loop over plugin_list: the arguments handed to callback.
describe_plugin(typelist, pt_plug) ==
    LET info == DescribeFrom(typelist, 1,
                    [pt_plug |-> pt_plug, types |-> g_string_new, sep |-> ""])
    IN  [name |-> pt_plug.name, version |-> pt_plug.version,
         description |-> info.types,
         filename |-> g_module_name(pt_plug.handle)]

\* The calls of callback, in the order they are made.
plugins_get_descriptions(list, typelist) ==
    [i \in 1 .. Len(list) |-> describe_plugin(typelist, list[i])]

----------------------------------------------------------------------------
(* The actions *)

InitOf(systems) ==
    /\ fs \in systems
    /\ plugin_list = <<>>
    /\ plugin_types = <<>>
    /\ type_val = 0
    /\ open_handles = {}
    /\ plugin_list_freed = FALSE
    /\ plugin_types_freed = FALSE
    /\ crashed = FALSE
    /\ reports = <<>>
    /\ scanned = <<>>
    /\ last_op = "start"
    /\ last_mode = DONT_REPORT_LOAD_FAILURE
    /\ called = FALSE
    /\ discoveries = 0
    /\ types_at_scan = <<>>
    /\ unowned_seen = FALSE
    /\ open_calls = {}
    /\ rewritten = FALSE
    /\ descriptions = <<>>

\* An operation that reads or frees memory plugins_cleanup has freed has no
\* defined behaviour: the model records it in crashed and follows the
\* process no further.
UseAfterFree ==
    /\ crashed' = TRUE
    /\ reports' = <<>>
    /\ scanned' = <<>>
    /\ unowned_seen' = FALSE
    /\ open_calls' = {}
    /\ rewritten' = FALSE
    /\ descriptions' = <<>>
    /\ last_mode' = DONT_REPORT_LOAD_FAILURE
    /\ UNCHANGED <<fs, plugin_list, plugin_types, type_val, open_handles,
                   plugin_list_freed, plugin_types_freed, called, discoveries,
                   types_at_scan>>

AddPluginType(type, callback) ==
    /\ ~crashed
    /\ \E r \in {add_plugin_type(plugin_types, type_val, type, callback)} :
        /\ last_op' = "add_plugin_type"
        /\ IF ~TypesExhausted(type_val) /\ plugin_types_freed
           THEN \* g_slist_append walks the cells of the freed list
                UseAfterFree
           ELSE /\ plugin_types' = r.plugin_types
                /\ type_val' = r.type_val
                /\ reports' = r.reports
                /\ scanned' = <<>>
                /\ unowned_seen' = FALSE
                /\ open_calls' = {}
                /\ rewritten' = FALSE
                /\ descriptions' = <<>>
                /\ last_mode' = DONT_REPORT_LOAD_FAILURE
                /\ UNCHANGED <<fs, plugin_list, open_handles, plugin_list_freed,
                               plugin_types_freed, crashed, called, discoveries,
                               types_at_scan>>

ScanPlugins(mode) ==
    /\ ~crashed
    /\ \E st \in {scan_plugins(fs, plugin_types, plugin_types_freed, plugin_list,
                               open_handles, mode)} :
        /\ st.scanned # <<>> => discoveries < MaxDiscoveries
        /\ last_op' = "scan_plugins"
        /\ IF st.stale_read
           THEN \* g_slist_foreach walked the cells of the freed list
                UseAfterFree
           ELSE /\ plugin_list' = st.plugin_list
                /\ open_handles' = st.open_handles
                /\ reports' = st.reports
                /\ scanned' = st.scanned
                /\ unowned_seen' = st.unowned_seen
                /\ open_calls' = st.open_calls
                /\ rewritten' = st.rewritten
                /\ descriptions' = <<>>
                /\ last_mode' = mode
                /\ called' = TRUE
                /\ discoveries' = discoveries + (IF st.scanned # <<>> THEN 1 ELSE 0)
                /\ types_at_scan' = (IF st.scanned # <<>> THEN plugin_types
                                     ELSE types_at_scan)
                /\ UNCHANGED <<fs, plugin_types, type_val, plugin_list_freed,
                               plugin_types_freed, crashed>>

\* plugins_cleanup frees every plugin record and its name, every type
\* record and the cells of the type list.  It assigns neither plugin_list
\* nor plugin_types, and it calls g_module_close on no handle.
plugins_cleanup(list, typelist, handles) ==
    [plugin_list |-> list, plugin_types |-> typelist, open_handles |-> handles,
     plugin_list_freed |-> list # <<>>, plugin_types_freed |-> typelist # <<>>]

PluginsCleanup ==
    /\ ~crashed
    /\ \E r \in {plugins_cleanup(plugin_list, plugin_types, open_handles)} :
        /\ last_op' = "plugins_cleanup"
        /\ IF plugin_list_freed \/ plugin_types_freed
           THEN \* the freed records are read and freed a second time
                UseAfterFree
           ELSE /\ plugin_list' = r.plugin_list
                /\ plugin_types' = r.plugin_types
                /\ open_handles' = r.open_handles
                /\ plugin_list_freed' = r.plugin_list_freed
                /\ plugin_types_freed' = r.plugin_types_freed
                /\ reports' = <<>>
                /\ scanned' = <<>>
                /\ unowned_seen' = FALSE
                /\ open_calls' = {}
                /\ rewritten' = FALSE
                /\ descriptions' = <<>>
                /\ last_mode' = DONT_REPORT_LOAD_FAILURE
                /\ UNCHANGED <<fs, type_val, crashed, called, discoveries,
                               types_at_scan>>

PluginsGetDescriptions ==
    /\ ~crashed
    /\ \E calls \in {plugins_get_descriptions(plugin_list, plugin_types)} :
        /\ last_op' = "plugins_get_descriptions"
        /\ IF plugin_list_freed \/ (plugin_list # <<>> /\ plugin_types_freed)
           THEN \* the loop reads the freed plugin records or type cells
                UseAfterFree
           ELSE /\ descriptions' = calls
                /\ reports' = <<>>
                /\ scanned' = <<>>
                /\ unowned_seen' = FALSE
                /\ open_calls' = {}
                /\ rewritten' = FALSE
                /\ last_mode' = DONT_REPORT_LOAD_FAILURE
                /\ UNCHANGED <<fs, plugin_list, plugin_types, type_val,
                               open_handles, plugin_list_freed,
                               plugin_types_freed, crashed, called,
                               discoveries, types_at_scan>>

Init == InitOf(FileSystems)

RegisterSome ==
    \E o \in TypeOwners :
        /\ Len(plugin_types) < MaxScanTypes
        /\ AddPluginType(o.type, o.callback)

Discover == \E mode \in Modes : ScanPlugins(mode)

Next == RegisterSome \/ Discover \/ PluginsGetDescriptions \/ PluginsCleanup

Spec == Init /\ [][Next]_vars

\* The specification of the type registry: all 32 registrations and the
\* rejected ones, in the installed layout, over the file systems whose
\* files are modules that load and export version ("foo.so", "bar.so" or
\* both) in the one global directory.
TypeFileSystems ==
    {f \in [plugin_dir : {PLUGIN_DIR}, build : {FALSE}, privs : {FALSE},
            files : {s \in FileSets(2) : WellFormed(s)}] :
        \A x \in f.files :
            /\ x.dir = PLUGIN_DIR_WITH_VERSION
            /\ ~NotAModuleName(x.name)
            /\ x.kind \in {"dissector", "wtap"}}

InitTypes == InitOf(TypeFileSystems)

RegisterAny ==
    \E o \in TypeOwners :
        /\ IF Len(plugin_types) < MaxVaried THEN TRUE
           ELSE o.callback = plugin_types[Len(plugin_types)].callback
        /\ AddPluginType(o.type, o.callback)

\* The scans of this specification come after at most MaxVaried
\* registrations or after the last one that can succeed.
DiscoverEarlyOrLast ==
    /\ Len(plugin_types) <= MaxVaried \/ TypesExhausted(type_val)
    /\ Discover

NextTypes ==
    \/ RegisterAny
    \/ DiscoverEarlyOrLast
    \/ PluginsGetDescriptions
    \/ PluginsCleanup

SpecTypes == InitTypes /\ [][NextTypes]_vars

----------------------------------------------------------------------------
(* Properties *)

Range(seq) == {seq[i] : i \in 1 .. Len(seq)}

\* The files with a module suffix in the directories the last scan_plugins
\* call scanned.
ScannedModuleFiles ==
    {x \in fs.files : x.dir \in Range(scanned) /\ ~NotAModuleName(x.name)}

\* The file loads, exports version and some type of the list claims it.
Classifiable(x, typelist) ==
    /\ x.kind \in {"dissector", "wtap"}
    /\ \E k \in 1 .. Len(typelist) :
          CallbackResult(fs, typelist[k].callback, FileName(x.dir, x.name))

\* C1 (Uniqueness): no two distinct entries of plugin_list have the same
\* name, whatever directories the files were found in.
C1_Uniqueness ==
    \A i, j \in 1 .. Len(plugin_list) :
        plugin_list[i].name = plugin_list[j].name => i = j

\* A scan registered a plugin and met, in another scanned directory, a
\* classifiable file of the same name.
C1_Witness ==
    /\ last_op = "scan_plugins"
    /\ \E i \in 1 .. Len(plugin_list) : \E x \in ScannedModuleFiles :
          /\ x.name = plugin_list[i].name
          /\ FileName(x.dir, x.name) # plugin_list[i].handle
          /\ Classifiable(x, plugin_types)

\* C2 (Discovery at most once): over any sequence of scan_plugins calls,
\* plugins_scan_dir is entered during at most one of them.
C2_DiscoveryAtMostOnce == discoveries <= 1

\* C3 (Idempotence): a scan_plugins call made after an earlier one, with the
\* registered types as they were when directories were last scanned and no
\* cleanup in between, leaves plugin_list as it is.
C3_Idempotence ==
    [][ ( /\ last_op' = "scan_plugins"
          /\ ~crashed'
          /\ called
          /\ ~plugin_list_freed /\ ~plugin_types_freed
          /\ discoveries > 0 => plugin_types = types_at_scan )
        => plugin_list' = plugin_list ]_vars

\* A second call scanned the directories again, with the same (empty) type
\* list as the first, and opened a module in them.
C3_Witness ==
    /\ last_op = "scan_plugins"
    /\ discoveries = 2
    /\ plugin_types = <<>>
    /\ \E x \in ScannedModuleFiles : x.kind \in {"dissector", "wtap"}

\* C4 (Classification soundness): bit b of a registered plugin's mask is set
\* exactly when a type with type_val = b was registered when the module was
\* classified and its callback returned true for the module's handle.
C4_ClassificationSound ==
    \A i \in 1 .. Len(plugin_list) : \A b \in 0 .. 31 :
        (b \in plugin_list[i].types)
        <=> \E k \in 1 .. Len(types_at_scan) :
               /\ types_at_scan[k].type_val = b
               /\ CallbackResult(fs, types_at_scan[k].callback,
                                 plugin_list[i].handle)

\* A registered plugin whose first bit is clear, and a type registered after
\* the scan whose callback accepts the module and whose bit is clear too.
C4_Witness ==
    /\ Len(plugin_list) = 1
    /\ 0 \notin plugin_list[1].types
    /\ \E k \in 1 .. Len(plugin_types) :
          /\ k > Len(types_at_scan)
          /\ CallbackResult(fs, plugin_types[k].callback, plugin_list[1].handle)
          /\ plugin_types[k].type_val \notin plugin_list[1].types

\* C5 (Exhaustion policy): the type list never holds more than 32 types, and
\* an add_plugin_type call made with 32 types registered reports one failure
\* and leaves the type list and the counter as they are.
C5_Exhaustion ==
    /\ [](Len(plugin_types) <= MaxPluginTypes)
    /\ [][ (last_op' = "add_plugin_type" /\ Len(plugin_types) = MaxPluginTypes)
           => /\ plugin_types' = plugin_types
              /\ type_val' = type_val
              /\ Len(reports') = 1
              /\ reports'[1].fn = "report_failure" ]_vars

\* A registration was attempted with 32 types registered.
C5_Witness ==
    /\ last_op = "add_plugin_type"
    /\ Len(plugin_types) = MaxPluginTypes
    /\ reports # <<>>

\* C6 (Zero-type discard): every entry of plugin_list is a module that some
\* type registered at its scan accepts, the scan never leaves a directory
\* entry with a handle open that no entry owns, and no such handle is open
\* afterwards.
C6_ZeroTypeDiscard ==
    /\ \A i \in 1 .. Len(plugin_list) :
          \E k \in 1 .. Len(types_at_scan) :
              CallbackResult(fs, types_at_scan[k].callback, plugin_list[i].handle)
    /\ ~unowned_seen
    /\ open_handles = OwnedHandles(plugin_list)

\* A scan opened a module that exports version and that no registered type
\* accepts.
C6_Witness ==
    /\ last_op = "scan_plugins"
    /\ \E x \in ScannedModuleFiles :
          /\ x.kind \in {"dissector", "wtap"}
          /\ ~Classifiable(x, plugin_types)
          /\ ~check_if_plugin_exists(plugin_list, x.name)

\* C7 (Privilege gating): when the program was started with special
\* privileges, no scan_plugins call hands the personal directory to
\* plugins_scan_dir and no entry of plugin_list was opened from it.
C7_PrivilegeGating ==
    started_with_special_privs(fs) =>
        /\ get_plugins_pers_dir_with_version(fs) \notin Range(scanned)
        /\ \A i \in 1 .. Len(plugin_list) :
              ~IsPrefix(get_plugins_pers_dir_with_version(fs),
                        plugin_list[i].handle)

\* A privileged scan of the global directory, with a module in the personal
\* directory that a registered type accepts.
C7_Witness ==
    /\ started_with_special_privs(fs)
    /\ last_op = "scan_plugins"
    /\ scanned # <<>>
    /\ \E x \in fs.files :
          /\ x.dir = get_plugins_pers_dir_with_version(fs)
          /\ ~NotAModuleName(x.name)
          /\ Classifiable(x, plugin_types)

\* The reports of the last operation that are equal to r.
CountReports(r) == Cardinality({k \in 1 .. Len(reports) : reports[k] = r})

\* The position of a directory in the order of the last scan.
ScanPos(dir) == CHOOSE k \in 1 .. Len(scanned) : scanned[k] = dir

\* The file was met in the last scan when its name was already registered:
\* an entry of plugin_list of that name was opened from a directory scanned
\* before the file's.
MetAsDuplicate(x) ==
    \E i \in 1 .. Len(plugin_list) :
        /\ plugin_list[i].name = x.name
        /\ \E y \in ScannedModuleFiles :
              /\ FileName(y.dir, y.name) = plugin_list[i].handle
              /\ ScanPos(y.dir) < ScanPos(x.dir)

\* The last scan found one module file in all, and it loads but exports no
\* version symbol.
OnlyVersionlessModule ==
    /\ last_op = "scan_plugins"
    /\ ~crashed
    /\ Cardinality(ScannedModuleFiles) = 1
    /\ \A x \in ScannedModuleFiles : x.kind = "noversion"

\* C8 (Missing version symbol): when the only module file of the scanned
\* directories loads but exports no version symbol, the registry stays
\* empty, the module is closed, one failure is reported in verbose mode and
\* none in silent mode.
C8_MissingVersion ==
    OnlyVersionlessModule =>
        /\ plugin_list = <<>>
        /\ open_handles = {}
        /\ last_mode = REPORT_LOAD_FAILURE => Len(reports) = 1
        /\ last_mode # REPORT_LOAD_FAILURE => Len(reports) = 0

\* C9 (Cleanup releases handles and memory): after plugins_cleanup no module
\* handle is open.
C9_CleanupClosesHandles ==
    (last_op = "plugins_cleanup" /\ ~crashed) => open_handles = {}

\* C10 (Silent mode): a scan in a mode other than REPORT_LOAD_FAILURE
\* reports nothing but missing version symbols; a scan in the mode
\* REPORT_LOAD_FAILURE reports each duplicate name, each module that could not
\* be opened and each module without registration routines once per file.
C10_SilentMode ==
    (last_op = "scan_plugins" /\ ~crashed) =>
        LET verbose == last_mode = REPORT_LOAD_FAILURE
            expected(S) == IF verbose THEN Cardinality(S) ELSE 0
            dups(n) == {x \in ScannedModuleFiles :
                           x.name = n /\ MetAsDuplicate(x)}
            unloadable(x) == x.kind = "unloadable" /\ ~MetAsDuplicate(x)
            useless(n) == {x \in ScannedModuleFiles :
                              /\ x.name = n
                              /\ x.kind \in {"dissector", "wtap"}
                              /\ ~Classifiable(x, plugin_types)
                              /\ ~MetAsDuplicate(x)}
        IN
        /\ \A k \in 1 .. Len(reports) :
              verbose \/ reports[k].msg = "no version symbol"
        /\ \A x \in ScannedModuleFiles :
              /\ CountReports(Report("report_warning",
                     "found in multiple directories", x.name))
                 = expected(dups(x.name))
              /\ CountReports(Report("report_failure", "couldn't load module",
                     FileName(x.dir, x.name)))
                 = expected(IF unloadable(x) THEN {x} ELSE {})
              /\ CountReports(Report("report_failure",
                     "no registration routines", x.name))
                 = expected(useless(x.name))

\* A silent scan handed plugins_scan_dir a directory that does not exist
\* and met a file that could not be opened, had no registration routines or
\* had a registered name.
C10_Witness ==
    /\ last_op = "scan_plugins"
    /\ last_mode = DONT_REPORT_LOAD_FAILURE
    /\ reports = <<>>
    /\ \E k \in 1 .. Len(scanned) : ~IsDirectory(fs, scanned[k])
    /\ \E x \in ScannedModuleFiles :
          \/ MetAsDuplicate(x)
          \/ x.kind = "unloadable"
          \/ x.kind \in {"dissector", "wtap"} /\ ~Classifiable(x, plugin_types)

\* The last scan met x before any other classifiable file of its name.
FirstClassifiable(x) ==
    /\ x \in ScannedModuleFiles
    /\ Classifiable(x, plugin_types)
    /\ \A z \in ScannedModuleFiles :
          (z.name = x.name /\ Classifiable(z, plugin_types))
              => ScanPos(x.dir) <= ScanPos(z.dir)

\* x and y are classifiable files of one name, x in a directory the last
\* scan read before the directory of y.
SameNameInLaterDir(x, y) ==
    /\ FirstClassifiable(x)
    /\ y \in ScannedModuleFiles
    /\ y.name = x.name
    /\ Classifiable(y, plugin_types)
    /\ ScanPos(x.dir) < ScanPos(y.dir)

\* C11 (First occurrence wins): when a scan reads directory D1 before D2
\* and both hold a loadable, classifiable file of one name, plugin_list has
\* exactly one entry of that name, with the handle, version and mask of the
\* D1 module; the D2 file is never handed to g_module_open; in verbose mode
\* one duplicate warning is reported for each later occurrence of the name
\* and in silent mode none.
C11_FirstOccurrenceWins ==
    (last_op = "scan_plugins" /\ ~crashed) =>
        \A x, y \in fs.files :
            SameNameInLaterDir(x, y) =>
                /\ Cardinality({i \in 1 .. Len(plugin_list) :
                                  plugin_list[i].name = x.name}) = 1
                /\ \E i \in 1 .. Len(plugin_list) :
                      /\ plugin_list[i].name = x.name
                      /\ plugin_list[i].handle = FileName(x.dir, x.name)
                      /\ plugin_list[i].version
                            = (IF x.kind = "dissector" THEN "1.0" ELSE "2.0")
                      /\ plugin_list[i].types =
                            {plugin_types[k].type_val :
                               k \in {n \in 1 .. Len(plugin_types) :
                                        CallbackResult(fs,
                                            plugin_types[n].callback,
                                            FileName(x.dir, x.name))}}
                /\ FileName(y.dir, y.name) \notin open_calls
                /\ FileName(y.dir, y.name) \notin open_handles
                /\ CountReports(Report("report_warning",
                                       "found in multiple directories", x.name))
                      = (IF last_mode = REPORT_LOAD_FAILURE
                         THEN Cardinality({z \in ScannedModuleFiles :
                                  /\ z.name = x.name
                                  /\ ScanPos(x.dir) < ScanPos(z.dir)})
                         ELSE 0)

\* A verbose scan read two directories that both hold a classifiable file
\* of one name, and reported one duplicate warning.
C11_Witness ==
    /\ last_op = "scan_plugins"
    /\ ~crashed
    /\ last_mode = REPORT_LOAD_FAILURE
    /\ \E x, y \in fs.files : SameNameInLaterDir(x, y)
    /\ Len(reports) = 1

\* C12 (Unresolvable primary directory): when get_plugins_dir() returns
\* NULL, a scan_plugins call hands no directory to plugins_scan_dir (not
\* the personal one either), opens no file, reports nothing and leaves
\* plugin_list, plugin_types and the open handles as they were.
C12_NoPluginDir ==
    [][(get_plugins_dir(fs) = NULL /\ last_op' = "scan_plugins") =>
          /\ ~crashed'
          /\ scanned' = <<>>
          /\ open_calls' = {}
          /\ reports' = <<>>
          /\ plugin_list' = plugin_list
          /\ plugin_types' = plugin_types
          /\ open_handles' = open_handles]_vars

\* An unprivileged process without plugin directory has scanned, with a
\* registered type and a classifiable file in the personal directory.
C12_Witness ==
    /\ get_plugins_dir(fs) = NULL
    /\ ~started_with_special_privs(fs)
    /\ last_op = "scan_plugins"
    /\ ~crashed
    /\ \E x \in fs.files :
          /\ x.dir = get_plugins_pers_dir_with_version(fs)
          /\ ~NotAModuleName(x.name)
          /\ Classifiable(x, plugin_types)

\* C13 (Handle ownership): as long as plugins_cleanup has not freed the
\* plugin records, the handle of every entry of plugin_list is open (no
\* g_module_close was called on it since it was registered) and no two
\* entries hold the same handle.
C13_HandleOwnership ==
    ~plugin_list_freed =>
        \A i \in 1 .. Len(plugin_list) :
            /\ plugin_list[i].handle \in open_handles
            /\ \A j \in 1 .. Len(plugin_list) :
                  plugin_list[i].handle = plugin_list[j].handle => i = j

\* Two plugins are registered, a later operation than the scan has run, and
\* no cleanup has freed them.
C13_Witness ==
    /\ ~plugin_list_freed
    /\ Len(plugin_list) = 2
    /\ last_op = "plugins_get_descriptions"

\* C14 (Bit-index assignment): as long as the type records are allocated,
\* the k-th registered type (counting from 0) has type_val k, so the
\* type_vals are pairwise distinct, lie in 0 .. 31 and equal the position in
\* plugin_types; and no step changes the type_val of a registered type or
\* removes one.
C14_BitIndex ==
    /\ [](~plugin_types_freed =>
            \A k \in 1 .. Len(plugin_types) :
                /\ plugin_types[k].type_val = k - 1
                /\ plugin_types[k].type_val \in 0 .. 31
                /\ \A j \in 1 .. Len(plugin_types) :
                      plugin_types[j].type_val = plugin_types[k].type_val
                          => j = k)
    /\ [][~plugin_types_freed' =>
            /\ Len(plugin_types') >= Len(plugin_types)
            /\ \A k \in 1 .. Len(plugin_types) :
                  plugin_types'[k].type_val = plugin_types[k].type_val]_vars

\* The 32nd type has just been registered, with type_val 31.
C14_Witness ==
    /\ last_op = "add_plugin_type"
    /\ ~crashed
    /\ ~plugin_types_freed
    /\ Len(plugin_types) = MaxPluginTypes
    /\ plugin_types[MaxPluginTypes].type_val = 31

\* C15 (Append-only registry): no directory entry handled by a scan changes
\* plugin_list other than by adding one record at its end, and, as long as
\* plugins_cleanup has not freed the records, every step leaves the
\* entries it found in plugin_list where they were, with their name,
\* version, handle and mask.
C15_AppendOnly ==
    /\ [](~rewritten)
    /\ [][~plugin_list_freed' =>
            /\ Len(plugin_list') >= Len(plugin_list)
            /\ SubSeq(plugin_list', 1, Len(plugin_list)) = plugin_list]_vars

\* A scan registered two plugins, one after the other.
C15_Witness ==
    /\ last_op = "scan_plugins"
    /\ ~crashed
    /\ ~plugin_list_freed
    /\ Len(plugin_list) = 2
    /\ Cardinality(open_calls) >= 2

\* The users plugin directory when the process may scan it.
PersonalIfUnprivileged ==
    IF started_with_special_privs(fs) THEN <<>>
    ELSE <<get_plugins_pers_dir_with_version(fs)>>

\* C16 (Directory order in the build layout): a scan_plugins call that
\* finds plugin_list empty and a plugin directory hands to plugins_scan_dir,
\* in the build layout with an openable plugin directory: the plugin
\* directory first, then one directory for each of its entries in reading
\* order (the ".libs" subdirectory of the entry when that is a directory,
\* else the entry itself), then the personal directory if unprivileged, and
\* never the versioned system directory; in the installed layout: the
\* versioned system directory, then the personal directory if unprivileged.
C16_DirectoryOrder ==
    [][(/\ plugin_list = <<>>
        /\ last_op' = "scan_plugins"
        /\ ~crashed'
        /\ get_plugins_dir(fs) # NULL) =>
          LET plugin_dir == get_plugins_dir(fs)
              entries == DirEntries(fs, plugin_dir)
              n == Len(entries)
          IN  IF running_in_build_directory(fs)
              THEN IsDirectory(fs, plugin_dir) =>
                     /\ Len(scanned') = 1 + n + Len(PersonalIfUnprivileged)
                     /\ scanned'[1] = plugin_dir
                     /\ \A i \in 1 .. n :
                           LET libs == plugin_dir \o <<entries[i], ".libs">>
                               own == plugin_dir \o <<entries[i]>>
                           IN  /\ IsDirectory(fs, libs) => scanned'[1 + i] = libs
                               /\ ~IsDirectory(fs, libs) => scanned'[1 + i] = own
                     /\ SubSeq(scanned', 2 + n, Len(scanned'))
                           = PersonalIfUnprivileged
                     /\ \A k \in 1 .. Len(scanned') :
                           scanned'[k] # get_plugins_dir_with_version(fs)
              ELSE scanned' = <<get_plugins_dir_with_version(fs)>>
                                 \o PersonalIfUnprivileged]_vars

\* A scan in the build layout read the plugin directory, the ".libs"
\* directory of a subdirectory that holds a file of its own as well, and
\* the personal directory.
C16_Witness ==
    /\ last_op = "scan_plugins"
    /\ ~crashed
    /\ running_in_build_directory(fs)
    /\ \E x \in fs.files : x.dir = SUB_DIR
    /\ scanned = <<PLUGIN_DIR, LIBS_DIR, PERS_DIR_WITH_VERSION>>

\* The names of the registered types whose type_val is a bit of mask, in
\* registration order.
TypeNamesOf(mask) ==
    LET sel == SelectSeq(plugin_types, LAMBDA t : t.type_val \in mask)
    IN  [k \in 1 .. Len(sel) |-> sel[k].type]

\* text is the names joined by ", ".
IsJoined(text, names) ==
    /\ Len(text) = (IF names = <<>> THEN 0 ELSE 2 * Len(names) - 1)
    /\ \A k \in 1 .. Len(names) : text[2 * k - 1] = names[k]
    /\ \A k \in 1 .. Len(names) - 1 : text[2 * k] = ", "

\* C17 (Enumeration): plugins_get_descriptions calls the callback once for
\* each entry of plugin_list, in list order, with the name, version and
\* file name of the entry and with the names of the registered types whose
\* bit is set in its mask, in registration order and joined by ", "; and
\* it changes neither plugin_list nor plugin_types.
C17_Enumeration ==
    /\ []((last_op = "plugins_get_descriptions" /\ ~crashed) =>
            /\ Len(descriptions) = Len(plugin_list)
            /\ \A i \in 1 .. Len(plugin_list) :
                  /\ descriptions[i].name = plugin_list[i].name
                  /\ descriptions[i].version = plugin_list[i].version
                  /\ descriptions[i].filename = plugin_list[i].handle
                  /\ IsJoined(descriptions[i].description,
                              TypeNamesOf(plugin_list[i].types)))
    /\ [][last_op' = "plugins_get_descriptions" =>
            /\ plugin_list' = plugin_list
            /\ plugin_types' = plugin_types
            /\ type_val' = type_val
            /\ open_handles' = open_handles]_vars

\* Two plugins were described: one with two types joined, and one that a
\* registered type does not claim.
C17_Witness ==
    /\ last_op = "plugins_get_descriptions"
    /\ ~crashed
    /\ Len(descriptions) = 2
    /\ \E i \in 1 .. 2 : Len(descriptions[i].description) = 3
    /\ \E i \in 1 .. 2 : \E k \in 1 .. Len(plugin_types) :
          plugin_types[k].type_val \notin plugin_list[i].types

\* No classifiable file of the name of x lies in a directory the last scan
\* read before the directory of x: the name was not registered when the scan
\* came to x.
NotYetRegistered(x) ==
    \A z \in ScannedModuleFiles :
        (z.name = x.name /\ Classifiable(z, plugin_types))
            => ScanPos(x.dir) <= ScanPos(z.dir)

C19_TeardownComplete ==
    /\ last_op = "plugins_cleanup" =>
          (plugin_list = <<>> /\ plugin_types = <<>>)
    /\ ~(crashed /\ last_op \in {"plugins_get_descriptions", "scan_plugins",
                                  "add_plugin_type"})

\* C20 (Non-zero mask invariant): as long as plugins_cleanup has not freed
\* the plugin records, the mask of every entry of plugin_list is non-zero
\* and has no bit at an index that is not below the number of registered
\* types; so with no type registered plugin_list is empty after any scan.
C20_NonZeroMask ==
    ~plugin_list_freed =>
        /\ \A i \in 1 .. Len(plugin_list) :
              /\ plugin_list[i].types # {}
              /\ \A b \in plugin_list[i].types : b < Len(plugin_types)
        /\ plugin_types = <<>> => plugin_list = <<>>

\* A plugin is registered with the bit of the 32nd type in its mask, and
\* with another bit clear.
C20_Witness ==
    /\ ~plugin_list_freed
    /\ \E i \in 1 .. Len(plugin_list) :
          /\ 31 \in plugin_list[i].types
          /\ \E b \in 0 .. 30 : b \notin plugin_list[i].types

====
